---- MODULE Spec2Model ----
(***************************************************************************)
(* Ticket triage workflow of src/app/main.py: the four LangGraph nodes     *)
(* (ingest, classify_issue, fetch_order, draft_reply), the linear graph    *)
(* that runs them, and the FastAPI endpoint triage_invoke that builds the  *)
(* initial state and maps the outcome to an HTTP response.                 *)
(*                                                                         *)
(* A Python str is a sequence of one-character strings.  An Optional value *)
(* is None (the empty tuple) or Some(v) (the one-element tuple <<v>>).  A  *)
(* dict is a function whose DOMAIN is the set of its keys.                 *)
(***************************************************************************)
EXTENDS Naturals, Sequences, FiniteSets, TLC

VARIABLES
    ORDERS,     \* mock_data/orders.json: list of order dicts
    ISSUES,     \* mock_data/issues.json: list of {keyword, issue_type}
    REPLIES,    \* mock_data/replies.json: list of {issue_type, template}
    requests,   \* the requests being served at the same time, each with its own run
    body,       \* the request body (TriageInput) of the request being served
    state,      \* the TriageState held by the running graph
    pc,         \* position of the run in the graph
    raised,     \* the exception that ended graph.invoke, if any
    failed_at,  \* the node that raised it
    executed,   \* the nodes run so far, in order
    http,       \* the HTTP response of triage_invoke, once produced
    called,     \* direct call of a node function: its name
    arg,        \* direct call: the dict passed in, as it is after the call
    ret         \* direct call: what the call returned or raised

vars ==
    <<ORDERS, ISSUES, REPLIES, requests, body, state, pc, raised, failed_at, executed, http,
      called, arg, ret>>

-----------------------------------------------------------------------------
(* Python values *)

None == <<>>

Some(v) == <<v>>

Val(o) == o[1]

\* Python truthiness of an Optional[str] or Optional[dict]: None, "" and {} are falsy
Falsy(o) == o = None \/ o = Some(<<>>)

EmptyDict == [k \in {} |-> None]

\* dict.get(k) with the default None
Get(d, k) == IF k \in DOMAIN d THEN d[k] ELSE None

\* dict.get(k, default)
GetOr(d, k, default) == IF k \in DOMAIN d THEN d[k] ELSE default

\* d[k] = v on a copy of d
Put(d, k, v) == [x \in DOMAIN d \cup {k} |-> IF x = k THEN v ELSE d[x]]

\* dict.update(e) on a copy of d
Update(d, e) == [x \in DOMAIN d \cup DOMAIN e |-> IF x \in DOMAIN e THEN e[x] ELSE d[x]]

LowerLetters ==
    <<"a", "b", "c", "d", "e", "f", "g", "h", "i", "j", "k", "l", "m",
      "n", "o", "p", "q", "r", "s", "t", "u", "v", "w", "x", "y", "z">>

UpperLetters ==
    <<"A", "B", "C", "D", "E", "F", "G", "H", "I", "J", "K", "L", "M",
      "N", "O", "P", "Q", "R", "S", "T", "U", "V", "W", "X", "Y", "Z">>

Digits == {"0", "1", "2", "3", "4", "5", "6", "7", "8", "9"}

UpperOf ==
    [c \in {LowerLetters[i] : i \in DOMAIN LowerLetters} |->
        UpperLetters[CHOOSE i \in DOMAIN LowerLetters : LowerLetters[i] = c]]

LowerOf ==
    [c \in {UpperLetters[i] : i \in DOMAIN UpperLetters} |->
        LowerLetters[CHOOSE i \in DOMAIN UpperLetters : UpperLetters[i] = c]]

\* str.upper()
str_upper(s) == [i \in 1..Len(s) |-> IF s[i] \in DOMAIN UpperOf THEN UpperOf[s[i]] ELSE s[i]]

\* str.lower()
str_lower(s) == [i \in 1..Len(s) |-> IF s[i] \in DOMAIN LowerOf THEN LowerOf[s[i]] ELSE s[i]]

\* needle == hay[i : i + len(needle)], i counted from 1
OccursAt(needle, hay, i) ==
    /\ i + Len(needle) - 1 <= Len(hay)
    /\ \A k \in 1..Len(needle) : hay[i + k - 1] = needle[k]

\* Python's `needle in hay` on strings
Contains(needle, hay) == \E i \in 1..(Len(hay) + 1) : OccursAt(needle, hay, i)

\* str.replace(old, new) for a non-empty old: the leftmost occurrence is replaced,
\* then the occurrences in what follows it
RECURSIVE str_replace(_, _, _)
str_replace(s, old, new) ==
    LET hits == {i \in 1..Len(s) : OccursAt(old, s, i)}
    IN  IF hits = {} THEN s
        ELSE LET first == CHOOSE i \in hits : \A j \in hits : i <= j
             IN  SubSeq(s, 1, first - 1) \o new
                   \o str_replace(SubSeq(s, first + Len(old), Len(s)), old, new)

-----------------------------------------------------------------------------
(* String constants of the program *)

\* src/app/main.py:136
MsgTicketTextRequired ==
    <<"t", "i", "c", "k", "e", "t", "_", "t", "e", "x", "t", " ", "i", "s", " ", "r", "e",
      "q", "u", "i", "r", "e", "d", " ", "i", "n", " ", "s", "t", "a", "t", "e", " ", "f",
      "o", "r", " ", "i", "n", "g", "e", "s", "t", "_", "n", "o", "d", "e">>
\* src/app/main.py:178
MsgOrderIdRequired ==
    <<"o", "r", "d", "e", "r", "_", "i", "d", " ", "i", "s", " ", "r", "e", "q", "u", "i",
      "r", "e", "d", " ", "b", "e", "f", "o", "r", "e", " ", "f", "e", "t", "c", "h", "_",
      "o", "r", "d", "e", "r", "_", "n", "o", "d", "e">>
\* src/app/main.py:183
MsgOrderNotFoundPrefix ==
    <<"o", "r", "d", "e", "r", " ", "n", "o", "t", " ", "f", "o", "u", "n", "d", " ", "f",
      "o", "r", " ", "i", "d", "=">>
\* src/app/main.py:200
MsgOrderRequired ==
    <<"o", "r", "d", "e", "r", " ", "i", "s", " ", "r", "e", "q", "u", "i", "r", "e", "d",
      " ", "b", "e", "f", "o", "r", "e", " ", "d", "r", "a", "f", "t", "_", "r", "e", "p",
      "l", "y", "_", "n", "o", "d", "e">>
\* src/app/main.py:277
NeedleOrderIdRequired ==
    <<"o", "r", "d", "e", "r", "_", "i", "d", " ", "i", "s", " ", "r", "e", "q", "u", "i",
      "r", "e", "d">>
\* src/app/main.py:279
NeedleOrderNotFound ==
    <<"o", "r", "d", "e", "r", " ", "n", "o", "t", " ", "f", "o", "u", "n", "d">>
\* src/app/main.py:285
MsgOrderMissingFinal ==
    <<"o", "r", "d", "e", "r", " ", "m", "i", "s", "s", "i", "n", "g", " ", "i", "n", " ",
      "f", "i", "n", "a", "l", " ", "s", "t", "a", "t", "e">>
\* src/app/main.py:75
Other == <<"o", "t", "h", "e", "r">>
RefundRequest == <<"r", "e", "f", "u", "n", "d", "_", "r", "e", "q", "u", "e", "s", "t">>
DamagedItem == <<"d", "a", "m", "a", "g", "e", "d", "_", "i", "t", "e", "m">>
LateDelivery == <<"l", "a", "t", "e", "_", "d", "e", "l", "i", "v", "e", "r", "y">>
MissingItem == <<"m", "i", "s", "s", "i", "n", "g", "_", "i", "t", "e", "m">>
\* src/app/main.py:83
EvidencePrefix ==
    <<"M", "a", "t", "c", "h", "e", "d", " ", "k", "e", "y", "w", "o", "r", "d", " ", "f",
      "o", "r", " ", "i", "s", "s", "u", "e", "_", "t", "y", "p", "e", "=">>
\* src/app/main.py:86-91
RecRefund ==
    <<"I", "s", "s", "u", "e", " ", "a", " ", "r", "e", "f", "u", "n", "d", " ", "a", "f",
      "t", "e", "r", " ", "v", "e", "r", "i", "f", "i", "c", "a", "t", "i", "o", "n", ".">>
RecDamaged ==
    <<"S", "e", "n", "d", " ", "a", " ", "r", "e", "p", "l", "a", "c", "e", "m", "e", "n",
      "t", " ", "a", "n", "d", " ", "c", "o", "n", "s", "i", "d", "e", "r", " ", "p", "a",
      "r", "t", "i", "a", "l", " ", "r", "e", "f", "u", "n", "d", ".">>
RecLate ==
    <<"A", "p", "o", "l", "o", "g", "i", "z", "e", " ", "a", "n", "d", " ", "o", "f", "f",
      "e", "r", " ", "d", "i", "s", "c", "o", "u", "n", "t", " ", "o", "r", " ", "r", "e",
      "f", "u", "n", "d", " ", "s", "h", "i", "p", "p", "i", "n", "g", ".">>
RecMissing ==
    <<"S", "h", "i", "p", " ", "t", "h", "e", " ", "m", "i", "s", "s", "i", "n", "g", " ",
      "i", "t", "e", "m", " ", "a", "n", "d", " ", "c", "o", "n", "f", "i", "r", "m", " ",
      "a", "d", "d", "r", "e", "s", "s", ".">>
RecManual ==
    <<"R", "e", "v", "i", "e", "w", " ", "t", "i", "c", "k", "e", "t", " ", "m", "a", "n",
      "u", "a", "l", "l", "y", ".">>
\* src/app/main.py:109-112
FallbackTemplate ==
    <<"H", "i", " ", "{", "{", "c", "u", "s", "t", "o", "m", "e", "r", "_", "n", "a", "m",
      "e", "}", "}", ",", " ", "t", "h", "a", "n", "k", "s", " ", "f", "o", "r", " ", "r",
      "e", "a", "c", "h", "i", "n", "g", " ", "o", "u", "t", " ", "a", "b", "o", "u", "t",
      " ", "o", "r", "d", "e", "r", " ", "{", "{", "o", "r", "d", "e", "r", "_", "i", "d",
      "}", "}", ".", " ", "O", "u", "r", " ", "t", "e", "a", "m", " ", "i", "s", " ", "r",
      "e", "v", "i", "e", "w", "i", "n", "g", " ", "y", "o", "u", "r", " ", "r", "e", "q",
      "u", "e", "s", "t", " ", "a", "n", "d", " ", "w", "i", "l", "l", " ", "f", "o", "l",
      "l", "o", "w", " ", "u", "p", " ", "s", "h", "o", "r", "t", "l", "y", ".">>
\* src/app/main.py:114-120
PlaceholderCustomerName ==
    <<"{", "{", "c", "u", "s", "t", "o", "m", "e", "r", "_", "n", "a", "m", "e", "}", "}">>
PlaceholderOrderId == <<"{", "{", "o", "r", "d", "e", "r", "_", "i", "d", "}", "}">>
There == <<"t", "h", "e", "r", "e">>

-----------------------------------------------------------------------------
(* The order-id pattern, src/app/main.py:143 *)

\* the number of digits after ORD in r"(ORD\d{4})"
OrderIdDigits == 4

OrderIdPrefix == <<"O", "R", "D">>

\* the pattern matches at position i of text, under re.IGNORECASE
PatternMatchesAt(text, i) ==
    /\ i + Len(OrderIdPrefix) + OrderIdDigits - 1 <= Len(text)
    /\ \A k \in 1..Len(OrderIdPrefix) : str_upper(<<text[i + k - 1]>>) = <<OrderIdPrefix[k]>>
    /\ \A k \in 1..OrderIdDigits : text[i + Len(OrderIdPrefix) + k - 1] \in Digits

\* re.search(r"(ORD\d{4})", text, re.IGNORECASE): group 1 of the leftmost match, or None
re_search(text) ==
    LET hits == {i \in 1..Len(text) : PatternMatchesAt(text, i)}
    IN  IF hits = {} THEN None
        ELSE LET first == CHOOSE i \in hits : \A j \in hits : i <= j
             IN  Some(SubSeq(text, first, first + Len(OrderIdPrefix) + OrderIdDigits - 1))

-----------------------------------------------------------------------------
(* Node helpers, src/app/main.py:72-121 *)

\* the `for row in ISSUES` loop without its break: the last matching row wins
RECURSIVE FirstIssueTypeNoBreak(_, _)
FirstIssueTypeNoBreak(rows, text_lower) ==
    IF rows = <<>> THEN Other
    ELSE LET last == rows[Len(rows)]
             before == FirstIssueTypeNoBreak(SubSeq(rows, 1, Len(rows) - 1), text_lower)
         IN  IF Contains(str_lower(last.keyword), text_lower) THEN last.issue_type ELSE before

\* the `for row in ISSUES` loop with its break
RECURSIVE FirstIssueType(_, _)
FirstIssueType(rows, text_lower) ==
    IF rows = <<>> THEN Other
    ELSE IF Contains(str_lower(Head(rows).keyword), text_lower)
         THEN Head(rows).issue_type
         ELSE FirstIssueType(Tail(rows), text_lower)

recommendation_map ==
    { <<RefundRequest, RecRefund>>, <<DamagedItem, RecDamaged>>,
      <<LateDelivery, RecLate>>, <<MissingItem, RecMissing>> }

_classify_issue_text(ticket_text) ==
    LET text_lower == str_lower(ticket_text)
        issue_type == FirstIssueType(ISSUES, text_lower)
        evidence == EvidencePrefix \o issue_type
        recommendation ==
            IF \E p \in recommendation_map : p[1] = issue_type
            THEN (CHOOSE p \in recommendation_map : p[1] = issue_type)[2]
            ELSE RecManual
    IN  [issue_type |-> Some(issue_type),
         evidence |-> Some(evidence),
         recommendation |-> Some(recommendation)]

\* the lookup taking the first row's template when no row has the issue type
RECURSIVE FirstTemplateOrFirstRow(_, _)
FirstTemplateOrFirstRow(rows, issue_type) ==
    IF rows = <<>> THEN None
    ELSE IF Head(rows).issue_type = issue_type \/ Len(rows) = 1
         THEN Some(Head(rows).template)
         ELSE FirstTemplateOrFirstRow(Tail(rows), issue_type)

\* the `for row in REPLIES` loop with its break
RECURSIVE FirstTemplate(_, _)
FirstTemplate(rows, issue_type) ==
    IF rows = <<>> THEN None
    ELSE IF Head(rows).issue_type = issue_type
         THEN Some(Head(rows).template)
         ELSE FirstTemplate(Tail(rows), issue_type)

\* _draft_reply without the second replace
_draft_reply_name_only(issue_type, order) ==
    LET found == FirstTemplate(REPLIES, issue_type)
        template == IF found = None THEN FallbackTemplate ELSE Val(found)
        customer_name == GetOr(order, "customer_name", There)
    IN  str_replace(template, PlaceholderCustomerName, customer_name)

\* _draft_reply with order["customer_name"] defaulting to the empty string
_draft_reply_empty_default(issue_type, order) ==
    LET found == FirstTemplate(REPLIES, issue_type)
        template == IF found = None THEN FallbackTemplate ELSE Val(found)
        customer_name == GetOr(order, "customer_name", <<>>)
        order_id == GetOr(order, "order_id", <<>>)
    IN  str_replace(str_replace(template, PlaceholderCustomerName, customer_name),
                    PlaceholderOrderId, order_id)

_draft_reply(issue_type, order) ==
    LET found == FirstTemplate(REPLIES, issue_type)
        template == IF found = None THEN FallbackTemplate ELSE Val(found)
        customer_name == GetOr(order, "customer_name", There)
        order_id == GetOr(order, "order_id", <<>>)
    IN  str_replace(str_replace(template, PlaceholderCustomerName, customer_name),
                    PlaceholderOrderId, order_id)

-----------------------------------------------------------------------------
(* LangGraph nodes, src/app/main.py:128-206.  A call yields the dict it was *)
(* given as the call leaves it, and either the dict it returns or the       *)
(* exception it raises.                                                     *)

Return(input, new_state) == [input |-> input, value |-> Some(new_state), raised |-> None]

Raise(input, kind, message) ==
    [input |-> input, value |-> None, raised |-> Some([kind |-> kind, message |-> message])]

HumanMessage(content) == [type |-> "human", content |-> content, id |-> None]

\* ingest_node without the .upper() of the match
ingest_node_keeping_case(st) ==
    IF "ticket_text" \notin DOMAIN st
    THEN Raise(st, "ValueError", MsgTicketTextRequired)
    ELSE LET ticket_text == st["ticket_text"]
             supplied == Get(st, "order_id")
         IN  IF ticket_text = None
             THEN Raise(st, IF Falsy(supplied) THEN "TypeError" ELSE "ValidationError", <<>>)
             ELSE LET match == IF Falsy(supplied) THEN re_search(Val(ticket_text)) ELSE None
                      order_id == IF match # None THEN match ELSE supplied
                      messages == Append(GetOr(st, "messages", <<>>), HumanMessage(Val(ticket_text)))
                      new_state == Put(Put(st, "messages", messages), "order_id", order_id)
                  IN  Return(st, new_state)

\* ingest_node extracting an id only when order_id is None, not when it is empty
ingest_node_none_only(st) ==
    IF "ticket_text" \notin DOMAIN st
    THEN Raise(st, "ValueError", MsgTicketTextRequired)
    ELSE LET ticket_text == st["ticket_text"]
             supplied == Get(st, "order_id")
         IN  IF ticket_text = None
             THEN Raise(st, IF Falsy(supplied) THEN "TypeError" ELSE "ValidationError", <<>>)
             ELSE LET match == IF supplied = None THEN re_search(Val(ticket_text)) ELSE None
                      order_id == IF match # None THEN Some(str_upper(Val(match))) ELSE supplied
                      messages == Append(GetOr(st, "messages", <<>>), HumanMessage(Val(ticket_text)))
                      new_state == Put(Put(st, "messages", messages), "order_id", order_id)
                  IN  Return(st, new_state)

\* ingest_node appending to state.get("messages", []) itself, not to a copy of it
ingest_node_aliasing(st) ==
    IF "ticket_text" \notin DOMAIN st
    THEN Raise(st, "ValueError", MsgTicketTextRequired)
    ELSE LET ticket_text == st["ticket_text"]
             supplied == Get(st, "order_id")
         IN  IF ticket_text = None
             THEN Raise(st, IF Falsy(supplied) THEN "TypeError" ELSE "ValidationError", <<>>)
             ELSE LET match == IF Falsy(supplied) THEN re_search(Val(ticket_text)) ELSE None
                      order_id == IF match # None THEN Some(str_upper(Val(match))) ELSE supplied
                      messages == Append(GetOr(st, "messages", <<>>), HumanMessage(Val(ticket_text)))
                      new_state == Put(Put(st, "messages", messages), "order_id", order_id)
                  IN  Return(IF "messages" \in DOMAIN st THEN Put(st, "messages", messages) ELSE st,
                             new_state)

ingest_node(st) ==
    IF "ticket_text" \notin DOMAIN st
    THEN Raise(st, "ValueError", MsgTicketTextRequired)
    ELSE LET ticket_text == st["ticket_text"]
             supplied == Get(st, "order_id")
         IN  IF ticket_text = None
             THEN \* re.search(None) or HumanMessage(content=None)
                  Raise(st, IF Falsy(supplied) THEN "TypeError" ELSE "ValidationError", <<>>)
             ELSE LET match == IF Falsy(supplied) THEN re_search(Val(ticket_text)) ELSE None
                      order_id == IF match # None THEN Some(str_upper(Val(match))) ELSE supplied
                      messages == Append(GetOr(st, "messages", <<>>), HumanMessage(Val(ticket_text)))
                      new_state == Put(Put(st, "messages", messages), "order_id", order_id)
                  IN  Return(st, new_state)

\* the node leaving an already classified state as it is
classify_issue_node_keeping(st) ==
    LET got == Get(st, "ticket_text")
        ticket_text == IF Falsy(got) THEN <<>> ELSE Val(got)
        classification == _classify_issue_text(ticket_text)
    IN  IF Get(st, "issue_type") # None
        THEN Return(st, st)
        ELSE Return(st, Update(st, classification))

classify_issue_node(st) ==
    LET got == Get(st, "ticket_text")
        ticket_text == IF Falsy(got) THEN <<>> ELSE Val(got)
        classification == _classify_issue_text(ticket_text)
    IN  Return(st, Update(st, classification))

\* the lookup comparing ids without regard to letter case
RECURSIVE FirstOrderIgnoringCase(_, _)
FirstOrderIgnoringCase(rows, order_id) ==
    IF rows = <<>> THEN None
    ELSE IF str_upper(Head(rows)["order_id"]) = str_upper(order_id)
         THEN Some(Head(rows))
         ELSE FirstOrderIgnoringCase(Tail(rows), order_id)

\* the lookup keeping the last row with the id
RECURSIVE LastOrder(_, _)
LastOrder(rows, order_id) ==
    IF rows = <<>> THEN None
    ELSE IF rows[Len(rows)]["order_id"] = order_id
         THEN Some(rows[Len(rows)])
         ELSE LastOrder(SubSeq(rows, 1, Len(rows) - 1), order_id)

\* next((o for o in ORDERS if o["order_id"] == order_id), None)
RECURSIVE FirstOrder(_, _)
FirstOrder(rows, order_id) ==
    IF rows = <<>> THEN None
    ELSE IF Head(rows)["order_id"] = order_id
         THEN Some(Head(rows))
         ELSE FirstOrder(Tail(rows), order_id)

\* fetch_order_node without its order_id guard: a missing id is looked up as None
fetch_order_node_unguarded(st) ==
    LET order_id == Get(st, "order_id")
        order == IF order_id = None THEN None ELSE FirstOrder(ORDERS, Val(order_id))
        shown == IF order_id = None THEN <<"N", "o", "n", "e">> ELSE Val(order_id)
    IN  IF Falsy(order)
        THEN Raise(st, "ValueError", MsgOrderNotFoundPrefix \o shown)
        ELSE Return(st, Put(st, "order", order))

\* fetch_order_node looking the id up in upper case and storing it normalised
fetch_order_node_normalizing(st) ==
    LET order_id == Get(st, "order_id")
    IN  IF Falsy(order_id)
        THEN Raise(st, "ValueError", MsgOrderIdRequired)
        ELSE LET order == FirstOrder(ORDERS, str_upper(Val(order_id)))
             IN  IF Falsy(order)
                 THEN Raise(st, "ValueError", MsgOrderNotFoundPrefix \o Val(order_id))
                 ELSE Return(st, Put(Put(st, "order_id", Some(str_upper(Val(order_id)))),
                                     "order", order))

\* fetch_order_node returning the dict as given when no row has the id
fetch_order_node_lenient(st) ==
    LET order_id == Get(st, "order_id")
    IN  IF Falsy(order_id)
        THEN Raise(st, "ValueError", MsgOrderIdRequired)
        ELSE LET order == FirstOrder(ORDERS, Val(order_id))
             IN  IF Falsy(order)
                 THEN Return(st, st)
                 ELSE Return(st, Put(st, "order", order))

fetch_order_node(st) ==
    LET order_id == Get(st, "order_id")
    IN  IF Falsy(order_id)
        THEN Raise(st, "ValueError", MsgOrderIdRequired)
        ELSE LET order == FirstOrder(ORDERS, Val(order_id))
             IN  IF Falsy(order)
                 THEN Raise(st, "ValueError", MsgOrderNotFoundPrefix \o Val(order_id))
                 ELSE Return(st, Put(st, "order", order))

draft_reply_node(st) ==
    LET got == Get(st, "issue_type")
        issue_type == IF Falsy(got) THEN Other ELSE Val(got)
        order == Get(st, "order")
    IN  IF order = None
        THEN Raise(st, "ValueError", MsgOrderRequired)
        ELSE Return(st, Put(st, "reply_text", Some(_draft_reply(issue_type, Val(order)))))

-----------------------------------------------------------------------------
(* The graph, src/app/main.py:213-233 *)

END == "__end__"

entry_point == "ingest"

\* edges with draft_reply leading back to ingest instead of END
edgesLooping ==
    { <<"ingest", "classify_issue">>,
      <<"classify_issue", "fetch_order">>,
      <<"fetch_order", "draft_reply">>,
      <<"draft_reply", "ingest">> }

edges ==
    { <<"ingest", "classify_issue">>,
      <<"classify_issue", "fetch_order">>,
      <<"fetch_order", "draft_reply">>,
      <<"draft_reply", END>> }

\* workflow.add_node(name, function)
NodeResult(node, st) ==
    CASE node = "ingest" -> ingest_node(st)
      [] node = "classify_issue" -> classify_issue_node(st)
      [] node = "fetch_order" -> fetch_order_node(st)
      [] node = "draft_reply" -> draft_reply_node(st)

\* the add_messages reducer of the messages channel: a message without an id gets
\* a fresh one, a message whose id is already in the list replaces that entry,
\* any other message is appended
RECURSIVE MergeById(_, _)
MergeById(left, right) ==
    IF right = <<>> THEN left
    ELSE LET m == Head(right)
             hit == {i \in DOMAIN left : left[i].id = m.id}
         IN  IF hit = {}
             THEN MergeById(Append(left, m), Tail(right))
             ELSE MergeById([left EXCEPT ![CHOOSE i \in hit : TRUE] = m], Tail(right))

add_messages(left, right) ==
    MergeById(left,
              [i \in DOMAIN right |->
                  IF right[i].id = None
                  THEN [right[i] EXCEPT !.id = Some(Len(left) + i)]
                  ELSE right[i]])

\* the graph state after a node returned `written`: every key the node returned is
\* written to its channel, messages through its reducer
ApplyWrites(st, written) ==
    [k \in DOMAIN st \cup DOMAIN written |->
        IF k \notin DOMAIN written THEN st[k]
        ELSE IF k = "messages" THEN add_messages(GetOr(st, "messages", <<>>), written[k])
        ELSE written[k]]

\* RunNode with the exception of a node swallowed: the run follows the edge
RunNodeSwallowing(node) ==
    /\ pc = node
    /\ LET r == NodeResult(node, state)
       IN  /\ executed' = Append(executed, node)
           /\ pc' = (CHOOSE e \in edges : e[1] = node)[2]
           /\ IF r.raised # None
              THEN /\ raised' = r.raised
                   /\ failed_at' = node
                   /\ state' = state
              ELSE /\ state' = ApplyWrites(state, Val(r.value))
                   /\ UNCHANGED <<raised, failed_at>>
    /\ UNCHANGED <<ORDERS, ISSUES, REPLIES, requests, body, http, called, arg, ret>>

\* graph.invoke runs the node the run is at: an exception ends the run and no
\* state is returned, a returned dict is written and the run follows the edge
RunNode(node) ==
    /\ pc = node
    /\ LET r == NodeResult(node, state)
       IN  /\ executed' = Append(executed, node)
           /\ IF r.raised # None
              THEN /\ pc' = "failed"
                   /\ raised' = r.raised
                   /\ failed_at' = node
                   /\ state' = state
              ELSE /\ pc' = (CHOOSE e \in edges : e[1] = node)[2]
                   /\ state' = ApplyWrites(state, Val(r.value))
                   /\ UNCHANGED <<raised, failed_at>>
    /\ UNCHANGED <<ORDERS, ISSUES, REPLIES, requests, body, http, called, arg, ret>>

Ingest == RunNode("ingest")

Classify == RunNode("classify_issue")

FetchOrder == RunNode("fetch_order")

DraftReply == RunNode("draft_reply")

-----------------------------------------------------------------------------
(* The endpoint, src/app/main.py:252-294 *)

initial_state(b) ==
    [messages |-> <<>>,
     ticket_text |-> Some(b.ticket_text),
     order_id |-> b.order_id,
     issue_type |-> None,
     evidence |-> None,
     recommendation |-> None,
     order |-> None,
     reply_text |-> None]

HTTPException(status_code, detail) ==
    [status |-> status_code, detail |-> Some(detail), json |-> None]

\* the except clause; an exception that is not a ValueError is not caught and
\* the server answers 500
ErrorResponse(exc) ==
    IF exc.kind # "ValueError" THEN [status |-> 500, detail |-> None, json |-> None]
    ELSE IF Contains(NeedleOrderIdRequired, exc.message) THEN HTTPException(400, exc.message)
    ELSE IF Contains(NeedleOrderNotFound, exc.message) THEN HTTPException(404, exc.message)
    ELSE HTTPException(500, exc.message)

FinalResponse(final_state) ==
    IF Falsy(Get(final_state, "order"))
    THEN HTTPException(500, MsgOrderMissingFinal)
    ELSE [status |-> 200,
          detail |-> None,
          json |-> Some([order_id |-> Get(final_state, "order_id"),
                         issue_type |-> Get(final_state, "issue_type"),
                         order |-> Get(final_state, "order"),
                         reply_text |-> Get(final_state, "reply_text"),
                         evidence |-> Get(final_state, "evidence"),
                         recommendation |-> Get(final_state, "recommendation")])]

\* graph.invoke from `node` on: the nodes run along the edges until END or an
\* exception, and the endpoint's answer to that outcome
RECURSIVE RunFrom(_, _)
RunFrom(node, st) ==
    IF node = END THEN FinalResponse(st)
    ELSE LET r == NodeResult(node, st)
         IN  IF r.raised # None
             THEN ErrorResponse(Val(r.raised))
             ELSE RunFrom((CHOOSE e \in edges : e[1] = node)[2], ApplyWrites(st, Val(r.value)))

\* triage_invoke(body) as a function of the body: the response of a request served
\* on its own
triage_invoke(b) == RunFrom(entry_point, initial_state(b))

\* lines 261-270: the initial state is built and handed to graph.invoke
TriageInvoke ==
    /\ pc = "request"
    /\ state' = initial_state(body)
    /\ pc' = entry_point
    /\ UNCHANGED <<ORDERS, ISSUES, REPLIES, requests, body, raised, failed_at, executed, http,
                   called, arg, ret>>

\* lines 274-294: graph.invoke has returned or raised
Respond ==
    /\ pc \in {END, "failed"}
    /\ http = None
    /\ http' = Some(IF pc = "failed" THEN ErrorResponse(Val(raised)) ELSE FinalResponse(state))
    /\ UNCHANGED <<ORDERS, ISSUES, REPLIES, requests, body, state, pc, raised, failed_at, executed,
                   called, arg, ret>>

-----------------------------------------------------------------------------
(* Inputs *)

FragOrd1001 == <<"O", "r", "d", "1", "0", "0", "1">>
FragORD1002Late == <<"O", "R", "D", "1", "0", "0", "2", " ", "l", "a", "t", "e", " ">>
FragDigit == <<"5">>
FragDamagedItem == <<"D", "a", "m", "a", "g", "e", "d", " ", "I", "T", "E", "M", " ">>
FragQuestion == <<"Q", "u", "e", "s", "t", "i", "o", "n">>
FragItem == <<"i", "t", "e", "m">>
KwItem == <<"i", "t", "e", "m">>
KwDamagedItem == <<"D", "a", "m", "a", "g", "e", "d", " ", "i", "t", "e", "m">>
KwQuestion == <<"q", "u", "e", "s", "t", "i", "o", "n">>
KwLate == <<"l", "a", "t", "e">>
IdORD1001 == <<"O", "R", "D", "1", "0", "0", "1">>
IdORD1002 == <<"O", "R", "D", "1", "0", "0", "2">>
IdLower1001 == <<"o", "r", "d", "1", "0", "0", "1">>
IdPhrase ==
    <<"o", "r", "d", "e", "r", "_", "i", "d", " ", "i", "s", " ", "r", "e", "q", "u", "i",
      "r", "e", "d">>
IdORD9999 == <<"O", "R", "D", "9", "9", "9", "9">>
NameAva == <<"A", "v", "a", " ", "C", "h", "e", "n">>
NameBo == <<"B", "o">>
NameCy == <<"C", "y">>
TemplateDamaged ==
    <<"H", "i", " ", "{", "{", "c", "u", "s", "t", "o", "m", "e", "r", "_", "n", "a", "m",
      "e", "}", "}", ",", " ", "s", "o", "r", "r", "y", " ", "a", "b", "o", "u", "t", " ",
      "{", "{", "o", "r", "d", "e", "r", "_", "i", "d", "}", "}", ".", " ", "A", " ", "r",
      "e", "p", "l", "a", "c", "e", "m", "e", "n", "t", " ", "f", "o", "r", " ", "{", "{",
      "o", "r", "d", "e", "r", "_", "i", "d", "}", "}", " ", "i", "s", " ", "o", "n", " ",
      "i", "t", "s", " ", "w", "a", "y", ".">>
TemplateLate ==
    <<"D", "e", "a", "r", " ", "{", "{", "c", "u", "s", "t", "o", "m", "e", "r", "_", "n",
      "a", "m", "e", "}", "}", ",", " ", "o", "r", "d", "e", "r", " ", "{", "{", "o", "r",
      "d", "e", "r", "_", "i", "d", "}", "}", " ", "i", "s", " ", "l", "a", "t", "e", ".">>

\* longest ticket text, in fragments
MaxFrags == 2

\* longest order table of a served request
MaxOrders == 1

Frags ==
    {FragOrd1001, FragORD1002Late, FragDigit, FragDamagedItem, FragItem, FragQuestion}

RECURSIVE TextsOf(_)
TextsOf(n) ==
    IF n = 0 THEN {<<>>}
    ELSE LET shorter == TextsOf(n - 1)
         IN  shorter \cup {t \o f : t \in shorter, f \in Frags}

SeqsUpTo(S, n) == UNION {[1..k -> S] : k \in 0..n}

\* order_id: Optional[str] = None
SuppliedIds == {None, Some(<<>>), Some(IdORD1001), Some(IdLower1001), Some(IdPhrase)}

OrderAva == [order_id |-> IdORD1001, customer_name |-> NameAva]

OrderBo == [order_id |-> IdORD1002, customer_name |-> NameBo]

OrderRows == {OrderAva, OrderBo}

\* a second row with the id of OrderAva
OrderCy == [order_id |-> IdORD1001, customer_name |-> NameCy]

\* longest table of a graph run from a given state and of a directly called node
MaxRows == 2

RuleItem == [keyword |-> KwItem, issue_type |-> MissingItem]

RuleDamagedItem == [keyword |-> KwDamagedItem, issue_type |-> DamagedItem]

RuleLate == [keyword |-> KwLate, issue_type |-> LateDelivery]

IssueTables == { <<RuleItem, RuleDamagedItem, RuleLate>>, <<RuleDamagedItem, RuleItem>> }

ReplyTables ==
    { <<>>,
      <<[issue_type |-> DamagedItem, template |-> TemplateDamaged],
        [issue_type |-> LateDelivery, template |-> TemplateLate]>> }

NoCall == [input |-> EmptyDict, value |-> None, raised |-> None]

\* the tables as loaded at import, no request served yet and no node called
Loaded ==
    /\ requests = <<>>
    /\ state = EmptyDict
    /\ raised = None
    /\ failed_at = ""
    /\ executed = <<>>
    /\ http = None
    /\ called = ""
    /\ arg = EmptyDict
    /\ ret = NoCall

-----------------------------------------------------------------------------
(* A request served by triage_invoke *)

Init ==
    /\ ORDERS \in SeqsUpTo(OrderRows, MaxOrders)
    /\ ISSUES \in IssueTables
    /\ REPLIES \in ReplyTables
    /\ body \in [ticket_text : TextsOf(MaxFrags), order_id : SuppliedIds]
    /\ pc = "request"
    /\ Loaded

Next ==
    \/ TriageInvoke
    \/ Ingest
    \/ Classify
    \/ FetchOrder
    \/ DraftReply
    \/ Respond

Spec == Init /\ [][Next]_vars

-----------------------------------------------------------------------------
(* graph.invoke on any initial state, its outcome mapped by lines 274-294 *)

PriorMessage == [type |-> "human", content |-> NameBo, id |-> Some(1)]

\* S, and every dict of S with key k set to a value of V
WithField(S, k, V) == S \cup {Put(d, k, v) : d \in S, v \in V}

ExecStates ==
    WithField(
        WithField(
            WithField({[messages |-> <<>>]}, "order", {Some(OrderBo)}),
            "order_id", {None, Some(IdORD1001), Some(IdORD9999)}),
        "ticket_text", {Some(t) : t \in TextsOf(1)})

InitExec ==
    /\ ORDERS \in SeqsUpTo({OrderAva, OrderBo, OrderCy}, MaxRows)
    /\ ISSUES \in IssueTables
    /\ REPLIES \in ReplyTables
    /\ requests = <<>>
    /\ body = [ticket_text |-> <<>>, order_id |-> None]
    /\ pc = entry_point
    /\ raised = None
    /\ failed_at = ""
    /\ executed = <<>>
    /\ http = None
    /\ called = ""
    /\ arg = EmptyDict
    /\ ret = NoCall
    /\ state \in ExecStates

NextExec ==
    \/ Ingest
    \/ Classify
    \/ FetchOrder
    \/ DraftReply
    \/ Respond

SpecExec == InitExec /\ [][NextExec]_vars

-----------------------------------------------------------------------------
(* A node function called on its own, as the tests call it *)

DefaultOrders == <<OrderAva, OrderBo>>

DefaultIssues == <<RuleItem, RuleDamagedItem, RuleLate>>

DefaultReplies ==
    <<[issue_type |-> DamagedItem, template |-> TemplateDamaged],
      [issue_type |-> LateDelivery, template |-> TemplateLate]>>

TemplateOther ==
    <<"H", "e", "l", "l", "o", " ", "{", "{", "c", "u", "s", "t", "o", "m", "e", "r", "_",
      "n", "a", "m", "e", "}", "}", ",", " ", "w", "e", " ", "g", "o", "t", " ", "y", "o",
      "u", "r", " ", "n", "o", "t", "e", " ", "o", "n", " ", "{", "{", "o", "r", "d", "e",
      "r", "_", "i", "d", "}", "}", ".">>

TemplateRows ==
    {[issue_type |-> DamagedItem, template |-> TemplateDamaged],
     [issue_type |-> LateDelivery, template |-> TemplateLate],
     [issue_type |-> Other, template |-> TemplateOther]}

\* order rows without one of the two keys _draft_reply reads
OrderNoName == [order_id |-> IdORD1002]

OrderNoId == [customer_name |-> NameBo]

RuleQuestion == [keyword |-> KwQuestion, issue_type |-> Other]

\* a dict carrying fields the called node does not own
OtherFields == [evidence |-> Some(NameCy), reply_text |-> Some(NameBo)]

InitCall ==
    /\ body = [ticket_text |-> <<>>, order_id |-> None]
    /\ pc = "idle"
    /\ Loaded

Call(node, st) ==
    /\ pc = "idle"
    /\ called = ""
    /\ called' = node
    /\ arg' = st
    /\ ret' = NodeResult(node, st)
    /\ UNCHANGED <<ORDERS, ISSUES, REPLIES, requests, body, state, pc, raised, failed_at, executed, http>>

\* the node called a second time, on the dict its first call returned
CallAgain(node) ==
    /\ pc = "idle"
    /\ called = node
    /\ ret.raised = None
    /\ pc' = "again"
    /\ arg' = Val(ret.value)
    /\ ret' = NodeResult(node, Val(ret.value))
    /\ UNCHANGED <<ORDERS, ISSUES, REPLIES, requests, body, state, called, raised, failed_at, executed, http>>

\* a dict carrying what the nodes of an earlier run left behind
FetchedFields ==
    [messages |-> <<PriorMessage>>, order_id |-> Some(IdORD1001),
     issue_type |-> Some(LateDelivery), evidence |-> Some(NameCy),
     order |-> Some(OrderAva), reply_text |-> Some(NameBo)]

IngestStates ==
    WithField(
        WithField(
            WithField({EmptyDict, OtherFields}, "messages", {<<>>, <<PriorMessage>>}),
            "order_id", {None, Some(<<>>), Some(IdLower1001)}),
        "ticket_text", {None} \cup {Some(t) : t \in TextsOf(MaxFrags)})

CallIngest == \E st \in IngestStates : Call("ingest", st)

InitIngest ==
    /\ ORDERS = DefaultOrders
    /\ ISSUES = DefaultIssues
    /\ REPLIES = DefaultReplies
    /\ InitCall

SpecIngest == InitIngest /\ [][CallIngest]_vars

ClassifyStates ==
    WithField({EmptyDict, FetchedFields},
              "ticket_text", {None} \cup {Some(t) : t \in TextsOf(MaxFrags)})

CallClassify == \E st \in ClassifyStates : Call("classify_issue", st)

CallClassifyAgain == CallAgain("classify_issue")

InitClassify ==
    /\ ORDERS = DefaultOrders
    /\ ISSUES \in SeqsUpTo({RuleItem, RuleDamagedItem, RuleLate, RuleQuestion}, MaxRows)
    /\ REPLIES = DefaultReplies
    /\ InitCall

NextClassify == CallClassify \/ CallClassifyAgain

SpecClassify == InitClassify /\ [][NextClassify]_vars

FetchOrderStates ==
    WithField(
        WithField({EmptyDict, OtherFields}, "order", {None, Some(OrderBo)}),
        "order_id",
        {None, Some(<<>>), Some(IdORD1001), Some(IdORD1002), Some(IdLower1001), Some(IdORD9999)})

CallFetchOrder == \E st \in FetchOrderStates : Call("fetch_order", st)

InitFetchOrder ==
    /\ ORDERS \in SeqsUpTo({OrderAva, OrderBo, OrderCy}, MaxRows)
    /\ ISSUES = DefaultIssues
    /\ REPLIES = DefaultReplies
    /\ InitCall

SpecFetchOrder == InitFetchOrder /\ [][CallFetchOrder]_vars

DraftReplyStates ==
    WithField(
        WithField({EmptyDict, OtherFields}, "order",
                  {None, Some(EmptyDict), Some(OrderAva), Some(OrderNoName), Some(OrderNoId)}),
        "issue_type",
        {None, Some(<<>>), Some(DamagedItem), Some(LateDelivery), Some(MissingItem), Some(Other)})

CallDraftReply == \E st \in DraftReplyStates : Call("draft_reply", st)

InitDraftReply ==
    /\ ORDERS = DefaultOrders
    /\ ISSUES = DefaultIssues
    /\ REPLIES \in SeqsUpTo(TemplateRows, MaxRows)
    /\ InitCall

SpecDraftReply == InitDraftReply /\ [][CallDraftReply]_vars

\* draft_reply_node reached by a run of the graph, or called on its own
InitRunOrDraftReply == InitExec \/ InitDraftReply

NextRunOrDraftReply == NextExec \/ CallDraftReply

SpecRunOrDraftReply == InitRunOrDraftReply /\ [][NextRunOrDraftReply]_vars

-----------------------------------------------------------------------------
(* Requests served at the same time: the endpoint is a plain `def`, so each  *)
(* call of triage_invoke runs on its own thread with its own initial_state   *)
(* and its own graph.invoke, and the threads' steps interleave.              *)

\* number of requests in flight together
MaxRequests == 2

ConcurrentBodies ==
    {[ticket_text |-> t, order_id |-> None] : t \in {FragOrd1001, FragORD1002Late, FragQuestion}}
        \cup {[ticket_text |-> FragDamagedItem, order_id |-> Some(IdORD1001)]}

\* a call of triage_invoke(body) that has not yet built its initial_state
NewRequest(b) ==
    [body |-> b, state |-> EmptyDict, pc |-> "request", raised |-> None, failed_at |-> "",
     executed |-> <<>>, http |-> None]

\* the next step of one call: build initial_state, run the node the run is at, or
\* turn the outcome of graph.invoke into the response
Advance(q) ==
    IF q.pc = "request"
    THEN [q EXCEPT !.state = initial_state(q.body), !.pc = entry_point]
    ELSE IF q.pc \in {END, "failed"}
    THEN [q EXCEPT !.http = Some(IF q.pc = "failed" THEN ErrorResponse(Val(q.raised))
                                                   ELSE FinalResponse(q.state))]
    ELSE LET r == NodeResult(q.pc, q.state)
         IN  IF r.raised # None
             THEN [q EXCEPT !.executed = Append(@, q.pc), !.pc = "failed",
                            !.raised = r.raised, !.failed_at = q.pc]
             ELSE [q EXCEPT !.executed = Append(@, q.pc),
                            !.pc = (CHOOSE e \in edges : e[1] = q.pc)[2],
                            !.state = ApplyWrites(q.state, Val(r.value))]

\* the calls keeping their graph state in one dict shared by all of them
ServeStepShared(r) ==
    /\ requests[r].http = None
    /\ requests' =
           [s \in DOMAIN requests |->
               IF s = r THEN Advance(requests[r])
               ELSE IF requests[s].pc \notin {"request", END, "failed"}
                    THEN [requests[s] EXCEPT !.state = Advance(requests[r]).state]
                    ELSE requests[s]]
    /\ UNCHANGED <<ORDERS, ISSUES, REPLIES, body, state, pc, raised, failed_at, executed, http,
                   called, arg, ret>>

\* one step of request r, the other requests standing still
ServeStep(r) ==
    /\ requests[r].http = None
    /\ requests' = [requests EXCEPT ![r] = Advance(requests[r])]
    /\ UNCHANGED <<ORDERS, ISSUES, REPLIES, body, state, pc, raised, failed_at, executed, http,
                   called, arg, ret>>

InitConcurrent ==
    /\ ORDERS \in {DefaultOrders, <<OrderBo>>}
    /\ ISSUES = DefaultIssues
    /\ REPLIES = DefaultReplies
    /\ requests \in [1..MaxRequests -> {NewRequest(b) : b \in ConcurrentBodies}]
    /\ body = [ticket_text |-> <<>>, order_id |-> None]
    /\ state = EmptyDict
    /\ pc = "idle"
    /\ raised = None
    /\ failed_at = ""
    /\ executed = <<>>
    /\ http = None
    /\ called = ""
    /\ arg = EmptyDict
    /\ ret = NoCall

NextConcurrent == \E r \in DOMAIN requests : ServeStep(r)

SpecConcurrent == InitConcurrent /\ [][NextConcurrent]_vars

-----------------------------------------------------------------------------
(* Properties of a served request *)

Ran(node) == \E i \in DOMAIN executed : executed[i] = node

\* C1: once fetch_order has failed, the run is over: draft_reply has not run and
\* never runs, reply_text is unset in that and every later state, and the response
\* carries no result.
C1_StageHalting ==
    [][ /\ failed_at' = "fetch_order" =>
            /\ pc' = "failed"
            /\ \A i \in DOMAIN executed' : executed'[i] # "draft_reply"
            /\ Get(state', "reply_text") = None
            /\ (http' # None => Val(http').json = None)
        /\ failed_at = "fetch_order" =>
            /\ failed_at' = "fetch_order"
            /\ executed' = executed
            /\ state' = state ]_vars

C1_Witness ==
    /\ failed_at = "fetch_order"
    /\ Val(raised).message # MsgOrderIdRequired
    /\ http # None

NodeOrder == <<"ingest", "classify_issue", "fetch_order", "draft_reply">>

IsPrefix(s, t) == Len(s) <= Len(t) /\ SubSeq(t, 1, Len(s)) = s

RunShape ==
    /\ IsPrefix(executed, NodeOrder)
    /\ pc = "request" => executed = <<>>
    /\ pc = END => executed = NodeOrder /\ raised = None
    /\ pc = "failed" => executed # <<>> /\ failed_at = executed[Len(executed)] /\ raised # None
    /\ pc \notin {"request", END, "failed"} =>
           /\ Len(executed) < Len(NodeOrder)
           /\ pc = NodeOrder[Len(executed) + 1]
           /\ raised = None

\* C2: the nodes run in the order ingest, classify_issue, fetch_order, draft_reply,
\* each at most once and one at a time; the run is at END exactly after all four
\* returned and is failed at the node that raised; a run that is at neither is at
\* a node with an edge to follow, every step it takes runs exactly one more node,
\* and a run at END or failed runs no node again: after at most four nodes every
\* run is at END or failed.
C2_LinearRun ==
    /\ RunShape
    /\ [][ /\ RunShape'
           /\ pc' \notin {END, "failed"} => \E e \in edges : e[1] = pc'
           /\ pc = "request" => pc' = NodeOrder[1] /\ executed' = executed
           /\ pc \notin {"request", END, "failed"} =>
                  /\ pc' # pc
                  /\ executed' = Append(executed, pc)
           /\ pc \in {END, "failed"} => pc' = pc /\ executed' = executed ]_vars

C2_Witness == pc = END /\ executed = NodeOrder /\ http # None

\* C6: a failure of fetch_order is answered 400 when it is the missing order_id and
\* 404 when it is the unknown id, never anything else.
C6_FetchOrderErrorMapping ==
    (http # None /\ failed_at = "fetch_order") =>
        /\ Val(raised).message = MsgOrderIdRequired => Val(http).status = 400
        /\ Val(raised).message # MsgOrderIdRequired => Val(http).status = 404

\* an ORD token: the letters o, r, d in either case and four digits
OrdTokenAt(t, i) ==
    /\ i + 6 <= Len(t)
    /\ str_upper(SubSeq(t, i, i + 2)) = <<"O", "R", "D">>
    /\ \A k \in (i + 3)..(i + 6) : t[k] \in Digits

TokenAt(t, i) == str_upper(SubSeq(t, i, i + 6))

IsOrderId(id) == \E k \in DOMAIN ORDERS : ORDERS[k]["order_id"] = id

RuleHits(t) ==
    {k \in DOMAIN ISSUES : Contains(str_lower(ISSUES[k].keyword), str_lower(t))}

IssueTypeEq == <<"i", "s", "s", "u", "e", "_", "t", "y", "p", "e", "=">>

\* the response is the full result for the extracted id `id`
EndToEndSuccess(id) ==
    LET r == Val(http)
        j == Val(r.json)
        first == CHOOSE k \in RuleHits(body.ticket_text) :
                     \A l \in RuleHits(body.ticket_text) : k <= l
    IN  /\ pc = END
        /\ r.status = 200
        /\ r.json # None
        /\ \A f \in DOMAIN j : j[f] # None
        /\ j.order_id = Some(id)
        /\ j.issue_type = Some(ISSUES[first].issue_type)
        /\ Contains(IssueTypeEq \o ISSUES[first].issue_type, Val(j.evidence))
        /\ Contains(Val(j.order)["customer_name"], Val(j.reply_text))
        /\ ~Contains(PlaceholderCustomerName, Val(j.reply_text))
        /\ ~Contains(PlaceholderOrderId, Val(j.reply_text))

\* C8 as stated: no order_id supplied, some ORD token of the text is an id of ORDERS
\* and some keyword occurs in the text: the response is the full result, order_id
\* being an ORD token of the text.
C8_Original ==
    (/\ http # None
     /\ body.order_id = None
     /\ \E i \in 1..Len(body.ticket_text) :
            OrdTokenAt(body.ticket_text, i) /\ IsOrderId(TokenAt(body.ticket_text, i))
     /\ RuleHits(body.ticket_text) # {})
    => \E i \in 1..Len(body.ticket_text) :
           OrdTokenAt(body.ticket_text, i) /\ EndToEndSuccess(TokenAt(body.ticket_text, i))

FirstTokenKnown(t) ==
    \E i \in 1..Len(t) :
        /\ OrdTokenAt(t, i)
        /\ \A j \in 1..(i - 1) : ~OrdTokenAt(t, j)
        /\ IsOrderId(TokenAt(t, i))

\* C8 amended: no order_id supplied, the leftmost ORD token of the text is an id of
\* ORDERS and some keyword occurs in the text: the response is the full result for
\* that leftmost token in upper case.
C8_EndToEnd ==
    (/\ http # None
     /\ body.order_id = None
     /\ FirstTokenKnown(body.ticket_text)
     /\ RuleHits(body.ticket_text) # {})
    => \E i \in 1..Len(body.ticket_text) :
           /\ OrdTokenAt(body.ticket_text, i)
           /\ \A j \in 1..(i - 1) : ~OrdTokenAt(body.ticket_text, j)
           /\ EndToEndSuccess(TokenAt(body.ticket_text, i))

C8_Witness ==
    /\ http # None
    /\ body.order_id = None
    /\ FirstTokenKnown(body.ticket_text)
    /\ Cardinality(RuleHits(body.ticket_text)) > 1
    /\ body.ticket_text # str_upper(body.ticket_text)
    /\ Val(http).status = 200

\* C9: ticket_text is the request's text in every state of the run, and a field is
\* not changed by any step taken after its owning node has run: order_id after
\* ingest, issue_type, evidence and recommendation after classify_issue, order after
\* fetch_order, reply_text after draft_reply.
C9_FieldOwnership ==
    [][ /\ pc' # "request" => Get(state', "ticket_text") = Some(body.ticket_text)
        /\ Ran("ingest") => Get(state', "order_id") = Get(state, "order_id")
        /\ Ran("classify_issue") =>
               \A f \in {"issue_type", "evidence", "recommendation"} :
                   Get(state', f) = Get(state, f)
        /\ Ran("fetch_order") => Get(state', "order") = Get(state, "order")
        /\ Ran("draft_reply") => Get(state', "reply_text") = Get(state, "reply_text") ]_vars

C9_Witness ==
    /\ pc = END
    /\ http # None
    /\ \A f \in {"order_id", "issue_type", "evidence", "recommendation", "order", "reply_text"} :
           Get(state, f) # None

-----------------------------------------------------------------------------
(* Properties of the nodes and of the error mapping *)

\* C3: fetch_order_node called on a dict with no order_id (no such key, or None)
\* raises the ValueError "order_id is required before fetch_order_node", not the
\* "order not found" one, and returns nothing, whatever ORDERS holds.
C3_MissingOrderId ==
    (called = "fetch_order" /\ Get(arg, "order_id") = None) =>
        /\ ret.raised = Some([kind |-> "ValueError", message |-> MsgOrderIdRequired])
        /\ Contains(NeedleOrderIdRequired, Val(ret.raised).message)
        /\ ~Contains(NeedleOrderNotFound, Val(ret.raised).message)
        /\ ret.value = None

C3_Witness ==
    /\ called = "fetch_order"
    /\ arg = EmptyDict
    /\ Len(ORDERS) = MaxRows
    /\ ret.raised # None

\* C4: fetch_order_node called with a non-empty order_id that equals the order_id
\* of no row of ORDERS raises the ValueError "order not found for id=<that id>",
\* returns no dict, and leaves the dict it was given and ORDERS as they were.
C4_UnknownOrderId ==
    [][ (/\ called' = "fetch_order"
         /\ ~Falsy(Get(arg', "order_id"))
         /\ \A k \in DOMAIN ORDERS : ORDERS[k]["order_id"] # Val(arg'["order_id"]))
        => /\ ret'.raised = Some([kind |-> "ValueError",
                                  message |-> MsgOrderNotFoundPrefix \o Val(arg'["order_id"])])
           /\ ret'.value = None
           /\ ret'.input = arg'
           /\ ORDERS' = ORDERS ]_vars

C4_Witness ==
    /\ called = "fetch_order"
    /\ Get(arg, "order_id") = Some(IdLower1001)
    /\ \E k \in DOMAIN ORDERS : ORDERS[k]["order_id"] = IdORD1001
    /\ ret.raised # None

\* C5: ingest_node called with a ticket_text and no order_id sets order_id to the
\* leftmost ORD token of the text in upper case, leaves it None when the text has
\* no ORD token, and does not raise.
C5_OrderIdExtraction ==
    (called = "ingest" /\ Get(arg, "ticket_text") # None /\ Get(arg, "order_id") = None) =>
        LET t == Val(arg["ticket_text"])
            tokens == {i \in 1..Len(t) : OrdTokenAt(t, i)}
        IN  /\ ret.raised = None
            /\ ret.value # None
            /\ tokens = {} => Get(Val(ret.value), "order_id") = None
            /\ tokens # {} =>
                   Get(Val(ret.value), "order_id") =
                       Some(TokenAt(t, CHOOSE i \in tokens : \A j \in tokens : i <= j))

C5_Witness ==
    /\ called = "ingest"
    /\ "order_id" \notin DOMAIN arg
    /\ Get(arg, "ticket_text") = Some(FragOrd1001 \o FragORD1002Late)
    /\ Get(Val(ret.value), "order_id") = Some(IdORD1001)

CallText == IF Falsy(Get(arg, "ticket_text")) THEN <<>> ELSE Val(arg["ticket_text"])

ClassifiedType == Val(Val(ret.value)["issue_type"])

FirstHit(t) == CHOOSE k \in RuleHits(t) : \A l \in RuleHits(t) : k <= l

\* C10 as stated: the issue type is that of the earliest row of ISSUES whose keyword
\* occurs in the text, letter case ignored, and it is "other" exactly when no row
\* matches.
C10_Original ==
    called = "classify_issue" =>
        /\ RuleHits(CallText) # {} => ClassifiedType = ISSUES[FirstHit(CallText)].issue_type
        /\ ClassifiedType = Other <=> RuleHits(CallText) = {}

\* C10 amended: the issue type is that of the earliest row of ISSUES whose keyword
\* occurs in the text, letter case ignored, and "other" when no row matches; it is
\* "other" only when no row matches or the earliest matching row carries "other".
C10_FirstMatch ==
    called = "classify_issue" =>
        /\ ret.raised = None
        /\ RuleHits(CallText) # {} => ClassifiedType = ISSUES[FirstHit(CallText)].issue_type
        /\ RuleHits(CallText) = {} => ClassifiedType = Other
        /\ ClassifiedType = Other =>
               \/ RuleHits(CallText) = {}
               \/ ISSUES[FirstHit(CallText)].issue_type = Other

C10_Witness ==
    /\ called = "classify_issue"
    /\ Cardinality(RuleHits(CallText)) > 1
    /\ ISSUES[1].keyword = KwItem
    /\ ISSUES[2].keyword = KwDamagedItem
    /\ ClassifiedType = MissingItem

ClassFields == {"issue_type", "evidence", "recommendation"}

\* the dict holding nothing but the ticket_text entry of st
OnlyText(st) ==
    IF "ticket_text" \in DOMAIN st THEN [k \in {"ticket_text"} |-> st[k]] ELSE EmptyDict

\* C11: classify_issue_node gives the same issue_type, evidence and recommendation as
\* it gives on a dict holding the same ticket_text and nothing else, whatever order_id,
\* order, messages or earlier classification the dict carries; called again on the
\* dict it returned, it gives these three fields again unchanged.
C11_ClassifyIdempotent ==
    called = "classify_issue" =>
        /\ ret.raised = None
        /\ \A f \in ClassFields :
               Val(ret.value)[f] = Val(classify_issue_node(OnlyText(arg)).value)[f]
        /\ pc = "again" => \A f \in ClassFields : Val(ret.value)[f] = arg[f]

C11_Witness ==
    /\ called = "classify_issue"
    /\ pc = "again"
    /\ Get(arg, "order") = Some(OrderAva)
    /\ Get(arg, "reply_text") = Some(NameBo)
    /\ Val(ret.input["issue_type"]) = DamagedItem
    /\ ClassifiedType = DamagedItem

FallbackHead == <<"H", "i", " ">>

FallbackMid ==
    <<",", " ", "t", "h", "a", "n", "k", "s", " ", "f", "o", "r", " ", "r", "e", "a", "c",
      "h", "i", "n", "g", " ", "o", "u", "t", " ", "a", "b", "o", "u", "t", " ", "o", "r",
      "d", "e", "r", " ">>

FallbackTail ==
    <<".", " ", "O", "u", "r", " ", "t", "e", "a", "m", " ", "i", "s", " ", "r", "e", "v",
      "i", "e", "w", "i", "n", "g", " ", "y", "o", "u", "r", " ", "r", "e", "q", "u", "e",
      "s", "t", " ", "a", "n", "d", " ", "w", "i", "l", "l", " ", "f", "o", "l", "l", "o",
      "w", " ", "u", "p", " ", "s", "h", "o", "r", "t", "l", "y", ".">>

\* the issue type draft_reply_node looks up: state.get("issue_type") or "other"
DraftType == IF Falsy(Get(arg, "issue_type")) THEN Other ELSE Val(arg["issue_type"])

DraftOrder == Val(arg["order"])

DraftedText == Val(Val(ret.value)["reply_text"])

HasTemplate(issue_type) == \E k \in 1..Len(REPLIES) : REPLIES[k].issue_type = issue_type

\* C12: when no row of REPLIES has the issue type and the order is not None, the
\* reply is the fallback text with the order's customer_name (or "there") and its
\* order_id (or the empty string) in place of the placeholders; it is not empty and
\* contains neither placeholder.
C12_TemplateFallback ==
    (called = "draft_reply" /\ Get(arg, "order") # None /\ ~HasTemplate(DraftType)) =>
        /\ ret.raised = None
        /\ DraftedText = FallbackHead \o GetOr(DraftOrder, "customer_name", There)
                           \o FallbackMid \o GetOr(DraftOrder, "order_id", <<>>)
                           \o FallbackTail
        /\ DraftedText # <<>>
        /\ ~Contains(PlaceholderCustomerName, DraftedText)
        /\ ~Contains(PlaceholderOrderId, DraftedText)

C12_Witness ==
    /\ called = "draft_reply"
    /\ Len(REPLIES) = 2
    /\ Get(arg, "issue_type") = Some(MissingItem)
    /\ Get(arg, "order") = Some(OrderNoName)
    /\ ret.raised = None

\* the order with the two keys _draft_reply reads set to the values it would default to
WithDefaults(order) ==
    [customer_name |-> GetOr(order, "customer_name", There),
     order_id |-> GetOr(order, "order_id", <<>>)]

\* C16: given an order that is not None, draft_reply_node raises nothing and returns
\* a dict with reply_text set, whatever the issue type (None included) and whichever
\* of customer_name and order_id the order lacks: the reply is the one drafted for
\* the same order with "there" as a missing name and "" as a missing id.
C16_DraftReplyTotal ==
    (called = "draft_reply" /\ Get(arg, "order") # None) =>
        /\ ret.raised = None
        /\ Get(Val(ret.value), "reply_text") # None
        /\ DraftedText = _draft_reply(DraftType, WithDefaults(DraftOrder))
        /\ "customer_name" \notin DOMAIN DraftOrder => Contains(There, DraftedText)

C16_Witness ==
    /\ called = "draft_reply"
    /\ Get(arg, "order") = Some(EmptyDict)
    /\ "issue_type" \notin DOMAIN arg
    /\ HasTemplate(Other)
    /\ Get(Val(ret.value), "reply_text") # None

\* an ORD token of exactly four digits: no fifth digit follows it
ExactTokenAt(t, i) ==
    /\ OrdTokenAt(t, i)
    /\ i + 7 <= Len(t) => t[i + 7] \notin Digits

\* C13: an order_id that ingest_node takes from the text is the upper case of an ORD
\* token of exactly four digits; ORD followed by five or more digits does not set it.
C13_ExactlyFourDigits ==
    (called = "ingest" /\ Get(arg, "ticket_text") # None /\ Falsy(Get(arg, "order_id"))) =>
        LET t == Val(arg["ticket_text"])
            exact == {i \in 1..Len(t) : ExactTokenAt(t, i)}
            order_id == Get(Val(ret.value), "order_id")
        IN  /\ ret.raised = None
            /\ order_id # Get(arg, "order_id") =>
                   \E i \in exact : order_id = Some(TokenAt(t, i))
            /\ exact = {} => order_id = Get(arg, "order_id")

\* C15: ingest_node raises the ValueError for the missing ticket_text, and nothing
\* else, whenever ticket_text is missing or None, and raises nothing otherwise.
C15_IngestFailure ==
    called = "ingest" =>
        /\ Get(arg, "ticket_text") = None =>
               ret.raised = Some([kind |-> "ValueError", message |-> MsgTicketTextRequired])
        /\ Get(arg, "ticket_text") # None => ret.raised = None

\* C17: a successful ingest_node returns a dict whose messages are the given messages
\* with one human message of the ticket text appended, whose other keys apart from
\* order_id are those given with the values given; the dict it was called with,
\* its messages included, is left as it was.
C17_IngestFrame ==
    called = "ingest" =>
        /\ ret.input = arg
        /\ ret.raised = None =>
               LET out == Val(ret.value)
               IN  /\ out["messages"] =
                          Append(GetOr(arg, "messages", <<>>),
                                 [type |-> "human", content |-> Val(arg["ticket_text"]),
                                  id |-> None])
                   /\ DOMAIN out = DOMAIN arg \cup {"messages", "order_id"}
                   /\ \A k \in DOMAIN arg \ {"messages", "order_id"} : out[k] = arg[k]

C17_Witness ==
    /\ called = "ingest"
    /\ Get(arg, "messages") = <<PriorMessage>>
    /\ Get(arg, "evidence") = Some(NameCy)
    /\ Get(arg, "order_id") = Some(<<>>)
    /\ ret.raised = None
    /\ Get(Val(ret.value), "order_id") = Some(IdORD1002)
    /\ Len(Val(ret.value)["messages"]) = 2

\* C14: in a run of the graph the order is not None whenever draft_reply is about to
\* run or has run, so no run fails at draft_reply and no response says "order missing
\* in final state"; draft_reply_node called on its own with no order raises the
\* ValueError for the missing order and returns nothing, reply_text included.
C14_DraftReplyPrecondition ==
    /\ (pc = "draft_reply" \/ Ran("draft_reply")) => Get(state, "order") # None
    /\ failed_at # "draft_reply"
    /\ http # None => Val(http).detail # Some(MsgOrderMissingFinal)
    /\ (called = "draft_reply" /\ Get(arg, "order") = None) =>
           /\ ret.raised = Some([kind |-> "ValueError", message |-> MsgOrderRequired])
           /\ ret.value = None
           /\ ret.input = arg

C14_Witness ==
    /\ pc = END
    /\ Ran("fetch_order")
    /\ Ran("draft_reply")
    /\ Get(state, "order") = Some(OrderAva)
    /\ Get(state, "reply_text") # None
    /\ http # None
    /\ Val(http).status = 200

\* `order` is the earliest row of ORDERS whose order_id is `id`
FirstRowWithId(order, id) ==
    /\ order["order_id"] = id
    /\ \E k \in DOMAIN ORDERS :
           /\ ORDERS[k] = order
           /\ \A j \in 1..(k - 1) : ORDERS[j]["order_id"] # id

\* C19: once fetch_order has succeeded, in every later state of the run and in the
\* success response, the order's order_id is the state's order_id and the order is
\* the earliest row of ORDERS with that id.
C19_OrderMatchesId ==
    /\ pc \in {"draft_reply", END} =>
           /\ Get(state, "order") # None
           /\ Get(state, "order_id") # None
           /\ FirstRowWithId(Val(state["order"]), Val(state["order_id"]))
    /\ (http # None /\ Val(http).status = 200) =>
           LET json == Val(Val(http).json)
           IN  /\ json.order # None
               /\ json.order_id # None
               /\ FirstRowWithId(Val(json.order), Val(json.order_id))

C19_Witness ==
    /\ Len(ORDERS) = 2
    /\ ORDERS[1] = OrderCy
    /\ ORDERS[2] = OrderAva
    /\ http # None
    /\ Val(http).status = 200
    /\ Val(Val(http).json).order = Some(OrderCy)
    /\ Val(Val(http).json).order_id = Some(IdORD1001)

\* C20: a supplied order_id that is not empty stays the state's order_id as given and
\* is the id looked up, whatever ORD token the text holds; a supplied empty order_id
\* is replaced by the token ingest finds in the text, fails at fetch_order with the
\* error for a missing order_id when there is none, and the request is answered as
\* the same request without an order_id is.
C20_SuppliedOrderId ==
    LET supplied == body.order_id
        match == re_search(body.ticket_text)
    IN  /\ (~Falsy(supplied) /\ pc # "request") =>
               /\ Get(state, "order_id") = supplied
               /\ failed_at # "" =>
                      /\ failed_at = "fetch_order"
                      /\ Val(raised).message = MsgOrderNotFoundPrefix \o Val(supplied)
               /\ (http # None /\ Val(http).status = 200) =>
                      /\ Val(Val(http).json).order_id = supplied
                      /\ Val(Val(Val(http).json).order)["order_id"] = Val(supplied)
        /\ (supplied = Some(<<>>) /\ Ran("ingest")) =>
               /\ match # None => Get(state, "order_id") = Some(str_upper(Val(match)))
               /\ match = None =>
                      /\ Get(state, "order_id") = Some(<<>>)
                      /\ failed_at = "fetch_order" => Val(raised).message = MsgOrderIdRequired
               /\ http # None => Val(http) = triage_invoke([body EXCEPT !.order_id = None])

C20_Witness ==
    /\ body.order_id = Some(<<>>)
    /\ body.ticket_text = FragORD1002Late \o FragOrd1001
    /\ Get(state, "order_id") = Some(IdORD1002)
    /\ http # None
    /\ Val(http).status = 200
    /\ Val(Val(http).json).order = Some(OrderBo)

\* C18: whichever request takes a step, the three tables stay as loaded and every
\* other request is exactly as it was; a request that has its response has the
\* response triage_invoke gives for its body when it is the only request served.
C18_RequestIsolation ==
    [][ /\ ORDERS' = ORDERS /\ ISSUES' = ISSUES /\ REPLIES' = REPLIES
        /\ \E r \in DOMAIN requests :
               \A s \in DOMAIN requests \ {r} : requests'[s] = requests[s]
        /\ \A r \in DOMAIN requests :
               /\ requests'[r].body = requests[r].body
               /\ requests'[r].http # None =>
                      Val(requests'[r].http) = triage_invoke(requests[r].body) ]_vars

C18_Witness ==
    /\ Len(requests) >= 2
    /\ requests[1].body.ticket_text = FragOrd1001
    /\ requests[1].pc = "fetch_order"
    /\ requests[2].body.ticket_text = FragQuestion
    /\ requests[2].http # None
    /\ Val(requests[2].http).status = 400
    /\ Len(requests[1].executed) = 2

====
